---- MODULE Spec2Model ----
(***************************************************************************)
(* spider-a11y-checker: the rule evaluator checkA11y and the view state    *)
(* of the Checker component (src/app/checker.tsx).                         *)
(*                                                                         *)
(* A page's html is a sequence of tags in document order.  A tag is a      *)
(* record [tag, attrs, body]: the tag name, the set of <<name, value>>     *)
(* attribute pairs written inside the tag, and, for an element whose       *)
(* closing tag follows, the text between the two tags.  Each regular       *)
(* expression of checkA11y is the predicate on tags that it matches, and   *)
(* html.match(re) is the subsequence of the tags satisfying it, re.test   *)
(* whether some tag satisfies it.                                          *)
(***************************************************************************)
EXTENDS Integers, Sequences, FiniteSets, TLC

VARIABLES
    page,          \* the html handed to checkA11y
    result,        \* <<>> before the call, <<PageAudit>> after it
    data,          \* useState data: the crawl records (<<>> is null)
    expanded,      \* useState expanded: <<>> (null) or <<url>>
    filter,        \* useState filter
    sortKey,       \* useState sortKey
    sortDir,       \* useState sortDir
    exportFormat,  \* useState exportFormat
    audits,        \* the array `audits` of the current render
    sortedAudits,  \* the array `sortedAudits` of the current render
    blob           \* <<the file this step downloaded>>, <<>> if it downloaded none

vars == <<page, result, data, expanded, filter, sortKey, sortDir,
          exportFormat, audits, sortedAudits, blob>>

evalVars == <<page, result>>
viewVars == <<data, expanded, filter, sortKey, sortDir, exportFormat,
              audits, sortedAudits, blob>>

(***************************************************************************)
(* Bounds.                                                                 *)
(***************************************************************************)
MaxHeadings == 3   \* heading tags on an evaluated page
MaxPages == 2      \* crawl records in one data set

(***************************************************************************)
(* Small helpers.                                                          *)
(***************************************************************************)
Min(a, b) == IF a < b THEN a ELSE b
Max(a, b) == IF a > b THEN a ELSE b

Rep(t, n) == [i \in 1..n |-> t]

Reverse(s) == [i \in 1..Len(s) |-> s[Len(s) + 1 - i]]

RECURSIVE SumSeq(_)
SumSeq(s) == IF s = <<>> THEN 0 ELSE Head(s) + SumSeq(Tail(s))

SeqsUpTo(S, n) == UNION {[1..k -> S] : k \in 0..n}

(***************************************************************************)
(* Tags.                                                                   *)
(***************************************************************************)
Tag(name, attrs, body) == [tag |-> name, attrs |-> attrs, body |-> body]

HasAttr(t, name) == \E p \in t.attrs : p[1] = name
HasAttrIn(t, name, values) == \E p \in t.attrs : p[1] = name /\ p[2] \in values

HeadingTags == {"h1", "h2", "h3", "h4", "h5", "h6"}
HeadingTag(level) ==
    CASE level = 1 -> "h1" [] level = 2 -> "h2" [] level = 3 -> "h3"
      [] level = 4 -> "h4" [] level = 5 -> "h5" [] level = 6 -> "h6"

\* parseInt(m[2]): the third character of a match "<hN>" is the digit N
ParseLevel(t) ==
    CASE t.tag = "h1" -> 1 [] t.tag = "h2" -> 2 [] t.tag = "h3" -> 3
      [] t.tag = "h4" -> 4 [] t.tag = "h5" -> 5 [] t.tag = "h6" -> 6

LabelableTypes == {"text", "email", "password", "tel", "number", "search"}

(***************************************************************************)
(* The regular expressions of checkA11y, as predicates on a tag.           *)
(***************************************************************************)
\* /<html[^>]*lang=/i
ReHtmlLang(t) == t.tag = "html" /\ HasAttr(t, "lang")
\* /<img(?![^>]*alt=)[^>]*>/gi
ReImgNoAlt(t) == t.tag = "img" /\ ~HasAttr(t, "alt")
\* /<h1[\s>]/gi
ReH1(t) == t.tag = "h1"
\* /<h([1-6])[\s>]/gi
ReHeading(t) == t.tag \in HeadingTags
\* /<a[^>]*>\s*<\/a>/gi
ReEmptyLink(t) == t.tag = "a" /\ t.body \in {"", " "}
\* /<input[^>]*type=["'](?:text|email|password|tel|number|search)["'][^>]*>/gi
ReLabelableInput(t) == t.tag = "input" /\ HasAttrIn(t, "type", LabelableTypes)
\* /<label/gi
ReLabel(t) == t.tag = "label"
\* /<main[\s>]/i, /role=["']main["']/i
ReMain(t) == t.tag = "main"
ReRoleMain(t) == HasAttrIn(t, "role", {"main"})
\* /<nav[\s>]/i, /role=["']navigation["']/i
ReNav(t) == t.tag = "nav"
ReRoleNav(t) == HasAttrIn(t, "role", {"navigation"})

(***************************************************************************)
(* checkA11y.  A message built by a template literal is the record of its  *)
(* fixed text and the numbers interpolated into it, in order.              *)
(***************************************************************************)
Msg(text, args) == [text |-> text, args |-> args]

Issue(rule, severity, message, suggestion) ==
    [rule |-> rule, severity |-> severity, message |-> message,
     suggestion |-> suggestion]

\* const issues = []; let score = 100
Start == [issues |-> <<>>, score |-> 100]

PushAdding(acc, issue, penalty) ==
    [issues |-> Append(acc.issues, issue), score |-> acc.score + penalty]

\* issues.push(issue); score -= penalty
Push(acc, issue, penalty) ==
    [issues |-> Append(acc.issues, issue), score |-> acc.score - penalty]

ImgPenaltyUncapped(noAltImgs) == noAltImgs * 5

ImgPenalty(noAltImgs) == Min(20, noAltImgs * 5)
LinkPenalty(emptyLinks) == Min(10, emptyLinks * 3)
LabelPenaltyUncapped(missing) == missing * 5

LabelPenalty(missing) == Min(15, missing * 5)

NoAltImgs(html) == Len(SelectSeq(html, ReImgNoAlt))
H1Count(html) == Len(SelectSeq(html, ReH1))
HeadingLevels(html) ==
    LET m == SelectSeq(html, ReHeading) IN [i \in 1..Len(m) |-> ParseLevel(m[i])]
EmptyLinks(html) == Len(SelectSeq(html, ReEmptyLink))
Inputs(html) == Len(SelectSeq(html, ReLabelableInput))
Labels(html) == Len(SelectSeq(html, ReLabel))
HasMain(html) == (\E i \in 1..Len(html) : ReMain(html[i])) \/ (\E i \in 1..Len(html) : ReRoleMain(html[i]))
HasNav(html) == (\E i \in 1..Len(html) : ReNav(html[i])) \/ (\E i \in 1..Len(html) : ReRoleNav(html[i]))

CheckLang(acc, html) ==
    IF ~(\E i \in 1..Len(html) : ReHtmlLang(html[i]))
    THEN Push(acc, Issue("html-lang", "error",
                         Msg("Missing lang attribute on <html>", <<>>),
                         "Add lang=\"en\" to the <html> tag"), 10)
    ELSE acc

CheckImgAlt(acc, html) ==
    IF NoAltImgs(html) > 0
    THEN Push(acc, Issue("img-alt", "error",
                         Msg("image(s) missing alt attribute", <<NoAltImgs(html)>>),
                         "Add descriptive alt text to all images"),
              ImgPenalty(NoAltImgs(html)))
    ELSE acc

CheckH1AtLeastOne(acc, html) ==
    IF H1Count(html) >= 1
    THEN Push(acc, Issue("single-h1", "warning",
                         Msg("H1 tags found", <<H1Count(html)>>),
                         "Use only one H1 per page"), 5)
    ELSE IF H1Count(html) = 0
    THEN Push(acc, Issue("single-h1", "warning",
                         Msg("No H1 tag found", <<>>),
                         "Add a single H1 heading"), 5)
    ELSE acc

CheckH1(acc, html) ==
    IF H1Count(html) > 1
    THEN Push(acc, Issue("single-h1", "warning",
                         Msg("H1 tags found", <<H1Count(html)>>),
                         "Use only one H1 per page"), 5)
    ELSE IF H1Count(html) = 0
    THEN Push(acc, Issue("single-h1", "warning",
                         Msg("No H1 tag found", <<>>),
                         "Add a single H1 heading"), 5)
    ELSE acc

HeadingIssue(from, to) ==
    Issue("heading-order", "warning",
          Msg("Heading level skipped: H to H", <<from, to>>),
          "Use sequential heading levels")

RECURSIVE ScanHeadingsNoBreak(_, _, _)
ScanHeadingsNoBreak(acc, levels, i) ==
    IF i > Len(levels) THEN acc
    ELSE IF levels[i] - levels[i - 1] > 1
    THEN ScanHeadingsNoBreak(
             Push(acc, HeadingIssue(levels[i - 1], levels[i]), 5), levels, i + 1)
    ELSE ScanHeadingsNoBreak(acc, levels, i + 1)

RECURSIVE ScanHeadingsAnyRise(_, _, _)
ScanHeadingsAnyRise(acc, levels, i) ==
    IF i > Len(levels) THEN acc
    ELSE IF levels[i] - levels[i - 1] >= 1
    THEN Push(acc, HeadingIssue(levels[i - 1], levels[i]), 5)
    ELSE ScanHeadingsAnyRise(acc, levels, i + 1)

\* for (let i = 1; i < headingLevels.length; i++): i here is the 1-based
\* index of headingLevels[i], so the loop starts at 2
RECURSIVE ScanHeadings(_, _, _)
ScanHeadings(acc, levels, i) ==
    IF i > Len(levels) THEN acc
    ELSE IF levels[i] - levels[i - 1] > 1
    THEN Push(acc, HeadingIssue(levels[i - 1], levels[i]), 5)
    ELSE ScanHeadings(acc, levels, i + 1)

CheckHeadingOrder(acc, html) == ScanHeadings(acc, HeadingLevels(html), 2)

CheckEmptyLinks(acc, html) ==
    IF EmptyLinks(html) > 0
    THEN Push(acc, Issue("empty-links", "error",
                         Msg("empty link(s) found", <<EmptyLinks(html)>>),
                         "Add text content or aria-label to links"),
              LinkPenalty(EmptyLinks(html)))
    ELSE acc

CheckFormLabels(acc, html) ==
    IF Inputs(html) > Labels(html)
    THEN Push(acc, Issue("form-labels", "error",
                         Msg("input(s) potentially missing labels",
                             <<Inputs(html) - Labels(html)>>),
                         "Associate a <label> with each form input"),
              LabelPenalty(Inputs(html) - Labels(html)))
    ELSE acc

CheckMain(acc, html) ==
    IF ~HasMain(html)
    THEN Push(acc, Issue("landmark-main", "info",
                         Msg("No <main> landmark found", <<>>),
                         "Wrap main content in a <main> element"), 3)
    ELSE acc

CheckNav(acc, html) ==
    IF ~HasNav(html)
    THEN Push(acc, Issue("landmark-nav", "info",
                         Msg("No <nav> landmark found", <<>>),
                         "Wrap navigation in a <nav> element"), 2)
    ELSE acc

\* issues and score when the return statement is reached
Checked(html) ==
    LET a1 == CheckLang(Start, html)
        a2 == CheckImgAlt(a1, html)
        a3 == CheckH1(a2, html)
        a4 == CheckHeadingOrder(a3, html)
        a5 == CheckEmptyLinks(a4, html)
        a6 == CheckFormLabels(a5, html)
        a7 == CheckMain(a6, html)
    IN  CheckNav(a7, html)

\* return { url, score: Math.max(0, score), issues }
checkA11y(url, html) ==
    [url |-> url, score |-> Max(0, Checked(html).score),
     issues |-> Checked(html).issues]

(***************************************************************************)
(* The pages evaluated.  A page is assembled from a description: which     *)
(* root tag and landmarks it has, its headings in order, and how many      *)
(* images without alt, empty links, labelable inputs and labels it has.    *)
(* Every assembled page also carries tags that resemble the ones counted   *)
(* but must not be: an image with alt, a link with text, a checkbox, a     *)
(* header.  The counts straddle the caps of the three capped penalties.    *)
(***************************************************************************)
Levels == 1..6

RootTag(lang) ==
    IF lang THEN Tag("html", {<<"lang", "en">>}, "") ELSE Tag("html", {}, "")
MainTags(kind) ==
    CASE kind = "none" -> <<>>
      [] kind = "tag" -> <<Tag("main", {}, "")>>
      [] kind = "role" -> <<Tag("div", {<<"role", "main">>}, "")>>
NavTags(kind) ==
    CASE kind = "none" -> <<>>
      [] kind = "tag" -> <<Tag("nav", {}, "")>>
      [] kind = "role" -> <<Tag("div", {<<"role", "navigation">>}, "")>>
ImgTag == Tag("img", {<<"src", "x">>}, "")
EmptyLinkTag == Tag("a", {<<"href", "x">>}, " ")
InputTag == Tag("input", {<<"type", "email">>}, "")
LabelTag == Tag("label", {<<"for", "x">>}, "")
LookAlikes ==
    << Tag("img", {<<"src", "x">>, <<"alt", "">>}, ""),
       Tag("a", {<<"href", "x">>}, "text"),
       Tag("input", {<<"type", "checkbox">>}, ""),
       Tag("header", {}, "") >>

AssemblePage(lang, main, nav, levels, imgs, links, inputs, labels) ==
    <<RootTag(lang)>> \o NavTags(nav) \o MainTags(main)
      \o [i \in 1..Len(levels) |-> Tag(HeadingTag(levels[i]), {}, "text")]
      \o Rep(ImgTag, imgs) \o Rep(EmptyLinkTag, links)
      \o Rep(InputTag, inputs) \o Rep(LabelTag, labels) \o LookAlikes

ImgCounts == {0, 1, 5}
LinkCounts == {0, 1, 4}
InputCounts == {0, 1, 4}
LabelCounts == {0, 1}

\* the pages with the most headings carry none of the counted tags
Pages ==
    {<<>>}
    \cup
    { AssemblePage(lang, main, nav, levels, imgs, links, inputs, labels) :
        lang \in BOOLEAN, main \in {"none", "tag"}, nav \in {"none", "role"},
        levels \in SeqsUpTo(Levels, MaxHeadings - 1),
        imgs \in ImgCounts, links \in LinkCounts,
        inputs \in InputCounts, labels \in LabelCounts }
    \cup
    { AssemblePage(lang, main, nav, levels, 0, 0, 0, 0) :
        lang \in BOOLEAN, main \in {"none", "tag"}, nav \in {"none", "role"},
        levels \in [1..MaxHeadings -> Levels] }

EvalUrl == <<"a">>

(***************************************************************************)
(* The crawl records handed to setData.  A field a record lacks is <<>>,   *)
(* a field it bears is <<value>>.  A url is a string, modelled as the      *)
(* sequence of its characters.                                             *)
(***************************************************************************)
CleanPage == AssemblePage(TRUE, "tag", "role", <<1>>, 0, 0, 0, 0)
WarnPage == AssemblePage(TRUE, "tag", "none", <<1, 1>>, 0, 0, 0, 0)
ErrorPage == AssemblePage(TRUE, "tag", "none", <<1>>, 1, 0, 0, 0)


Record(u, c) == [url |-> <<u>>, content |-> <<c>>]

Records ==
    {Record(<<"a">>, CleanPage), Record(<<"B">>, WarnPage),
     Record(<<"a">>, ErrorPage),
     [url |-> <<<<"B">>>>, content |-> <<>>]}

\* the data sets a crawl delivers: no record twice
DataSets ==
    {d \in SeqsUpTo(Records, MaxPages) :
        \A i, j \in 1..Len(d) : d[i] = d[j] => i = j}

\* the arrays of records a crawl can hand over: a record may lack either
\* field or bear an empty string in it
CrawlRecords ==
    {[url |-> u, content |-> c] :
        u \in {<<>>, <<<<>>>>, <<<<"a">>>>, <<<<"B">>>>},
        c \in {<<>>, <<<<>>>>, <<CleanPage>>, <<ErrorPage>>}}

CrawlArrays == SeqsUpTo(CrawlRecords, MaxPages)

TruthyIfDefined(field) == field # <<>>

\* p?.url && p?.content: a missing field and the empty string are falsy
Truthy(field) == field # <<>> /\ field[1] # <<>>
Usable(p) == Truthy(p.url) /\ Truthy(p.content)

\* (p) => checkA11y(p.url, p.content), on the records that are kept
AuditOf ==
    [p \in {r \in Records \cup CrawlRecords : Usable(r)} |->
        checkA11y(p.url[1], p.content[1])]

\* (data || []).filter((p) => p?.url && p?.content).map(...)
Audits(d) ==
    LET kept == SelectSeq(d, Usable)
    IN  [i \in 1..Len(kept) |-> AuditOf[kept[i]]]

Scores(a) == [i \in 1..Len(a) |-> a[i].score]

\* Math.round(num / den) for num >= 0, den > 0: halves round up
Round(num, den) == (2 * num + den) \div (2 * den)

AvgScoreFloor(a) ==
    IF Len(a) # 0 THEN SumSeq(Scores(a)) \div Len(a) ELSE 0

\* audits.length ? Math.round(audits.reduce(...) / audits.length) : 0
AvgScore(a) ==
    IF Len(a) # 0 THEN Round(SumSeq(Scores(a)), Len(a)) ELSE 0

\* a.issues.some((i) => i.severity === severity)
HasSeverity(a, severity) ==
    \E i \in 1..Len(a.issues) : a.issues[i].severity = severity

PagesWith(a, severity) ==
    LET Has(p) == HasSeverity(p, severity) IN SelectSeq(a, Has)

FilteredAuditsUnfiltered(a, f) == a

\* the pages listed: all of them, or those with an issue of the severity
FilteredAudits(a, f) == IF f = "all" THEN a ELSE PagesWith(a, f)

\* the issues listed in a page's panel: all of them, or those of the
\* severity
FilteredIssues(audit, f) ==
    LET Is(i) == i.severity = f
    IN  IF f = "all" THEN audit.issues ELSE SelectSeq(audit.issues, Is)

RECURSIVE Flatten(_)
Flatten(ss) == IF ss = <<>> THEN <<>> ELSE Head(ss) \o Flatten(Tail(ss))

\* audits.flatMap((a) => a.issues)
AllIssues(a) == Flatten([i \in 1..Len(a) |-> a[i].issues])

IssueCount(a, severity) ==
    LET Is(i) == i.severity = severity IN Len(SelectSeq(AllIssues(a), Is))

FilterCountsErrorTwice(a) ==
    [all |-> Len(a), error |-> Len(PagesWith(a, "error")),
     warning |-> Len(PagesWith(a, "error")), info |-> Len(PagesWith(a, "info"))]

FilterCounts(a) ==
    [all |-> Len(a), error |-> Len(PagesWith(a, "error")),
     warning |-> Len(PagesWith(a, "warning")), info |-> Len(PagesWith(a, "info"))]

ScoreBuckets(a) ==
    LET B90(p) == p.score >= 90
        B70(p) == p.score >= 70 /\ p.score < 90
        B50(p) == p.score >= 50 /\ p.score < 70
        B0(p) == p.score < 50
    IN  << Len(SelectSeq(a, B90)), Len(SelectSeq(a, B70)),
           Len(SelectSeq(a, B50)), Len(SelectSeq(a, B0)) >>

(***************************************************************************)
(* a.url.localeCompare(b.url): the letters are compared without regard to  *)
(* case first, and only strings equal that way by case, lower case first.  *)
(***************************************************************************)
Letter(c) == CASE c \in {"a", "A"} -> 1 [] c \in {"b", "B"} -> 2
Case(c) == IF c \in {"A", "B"} THEN 1 ELSE 0

RECURSIVE LexCompare(_, _)
LexCompare(x, y) ==
    IF x = <<>> THEN (IF y = <<>> THEN 0 ELSE -1)
    ELSE IF y = <<>> THEN 1
    ELSE IF Head(x) < Head(y) THEN -1
    ELSE IF Head(x) > Head(y) THEN 1
    ELSE LexCompare(Tail(x), Tail(y))

LocaleCompare(x, y) ==
    LET letters == LexCompare([i \in 1..Len(x) |-> Letter(x[i])],
                              [i \in 1..Len(y) |-> Letter(y[i])])
    IN  IF letters # 0 THEN letters
        ELSE LexCompare([i \in 1..Len(x) |-> Case(x[i])],
                        [i \in 1..Len(y) |-> Case(y[i])])

\* the comparator before the direction is applied
KeyCompare(a, b, key) ==
    IF key = "score" THEN a.score - b.score
    ELSE IF key = "url" THEN LocaleCompare(a.url, b.url)
    ELSE Len(a.issues) - Len(b.issues)

CompareIgnoringDir(a, b, key, dir) == KeyCompare(a, b, key)

\* the comparator handed to sort
Compare(a, b, key, dir) ==
    IF dir = "asc" THEN KeyCompare(a, b, key) ELSE 0 - KeyCompare(a, b, key)

RECURSIVE InsertBeforeEqual(_, _, _, _)
InsertBeforeEqual(s, x, key, dir) ==
    IF s = <<>> THEN <<x>>
    ELSE IF Compare(x, Head(s), key, dir) <= 0 THEN <<x>> \o s
    ELSE <<Head(s)>> \o InsertBeforeEqual(Tail(s), x, key, dir)

\* Array.prototype.sort is stable: an element goes behind the elements
\* sorted so far that do not compare greater than it
RECURSIVE Insert(_, _, _, _)
Insert(s, x, key, dir) ==
    IF s = <<>> THEN <<x>>
    ELSE IF Compare(x, Head(s), key, dir) < 0 THEN <<x>> \o s
    ELSE <<Head(s)>> \o Insert(Tail(s), x, key, dir)

RECURSIVE Sort(_, _, _)
Sort(s, key, dir) ==
    IF s = <<>> THEN <<>>
    ELSE Insert(Sort(SubSeq(s, 1, Len(s) - 1), key, dir), s[Len(s)], key, dir)

\* [...filteredAudits].sort(cmp)
SortedAudits(a, f, key, dir) == Sort(FilteredAudits(a, f), key, dir)

AuditsSortedInPlace(a, f, key, dir) ==
    IF f = "all" THEN Sort(a, key, dir) ELSE a

\* the array `audits` once the render has sorted: the spread copies
\* filteredAudits, so the sort leaves `audits` as it was built
AuditsAfterSort(a, f, key, dir) == a

\* one render of Checker: the two arrays its handlers close over
Render(d, f, key, dir) ==
    [audits |-> AuditsAfterSort(Audits(d), f, key, dir),
     sortedAudits |-> SortedAudits(Audits(d), f, key, dir)]

(***************************************************************************)
(* exportAudits.  The file handed to downloadBlob is the record of its     *)
(* format, its MIME type and its content: for json the list serialised,    *)
(* for csv the rows (the cells before they are quoted), for markdown the   *)
(* header figures and one section per page.                                *)
(***************************************************************************)
Digit(d) ==
    CASE d = 0 -> "0" [] d = 1 -> "1" [] d = 2 -> "2" [] d = 3 -> "3"
      [] d = 4 -> "4" [] d = 5 -> "5" [] d = 6 -> "6" [] d = 7 -> "7"
      [] d = 8 -> "8" [] d = 9 -> "9"

\* String(a.score), for a score >= 0
RECURSIVE ToStr(_)
ToStr(n) == IF n < 10 THEN <<Digit(n)>> ELSE ToStr(n \div 10) \o <<Digit(n % 10)>>

Row(url, score, rule, severity, message, suggestion) ==
    [url |-> url, score |-> score, rule |-> rule, severity |-> severity,
     message |-> message, suggestion |-> suggestion]

CsvHeader ==
    Row(<<"U", "R", "L">>, <<"S", "c", "o", "r", "e">>, "Rule", "Severity",
        Msg("Message", <<>>), "Suggestion")

CsvPageRowsIssuesOnly(a) ==
    [i \in 1..Len(a.issues) |->
        Row(a.url, ToStr(a.score), a.issues[i].rule, a.issues[i].severity,
            a.issues[i].message, a.issues[i].suggestion)]

CsvPageRows(a) ==
    IF Len(a.issues) = 0
    THEN <<Row(a.url, ToStr(a.score), "", "", Msg("No issues", <<>>), "")>>
    ELSE [i \in 1..Len(a.issues) |->
            Row(a.url, ToStr(a.score), a.issues[i].rule, a.issues[i].severity,
                a.issues[i].message, a.issues[i].suggestion)]

CsvRows(list) ==
    <<CsvHeader>> \o Flatten([i \in 1..Len(list) |-> CsvPageRows(list[i])])

\* i.severity.toUpperCase()
UpperCase(severity) ==
    CASE severity = "error" -> "ERROR" [] severity = "warning" -> "WARNING"
      [] severity = "info" -> "INFO"

\* const avg = audits.length ? Math.round(... / audits.length) : 0
MarkdownAvg(list) ==
    IF Len(list) # 0 THEN Round(SumSeq(Scores(list)), Len(list)) ELSE 0

MarkdownSection(a) ==
    [url |-> a.url, score |-> a.score, noIssues |-> Len(a.issues) = 0,
     table |-> [i \in 1..Len(a.issues) |->
                  [severity |-> UpperCase(a.issues[i].severity),
                   rule |-> a.issues[i].rule,
                   message |-> a.issues[i].message,
                   suggestion |-> a.issues[i].suggestion]]]

Markdown(list) ==
    [pages |-> Len(list), avg |-> MarkdownAvg(list),
     sections |-> [i \in 1..Len(list) |-> MarkdownSection(list[i])]]

exportAudits(list, format) ==
    IF format = "json"
    THEN [format |-> format, mime |-> "application/json",
          json |-> list, csv |-> <<>>, md |-> <<>>]
    ELSE IF format = "csv"
    THEN [format |-> format, mime |-> "text/csv",
          json |-> <<>>, csv |-> CsvRows(list), md |-> <<>>]
    ELSE [format |-> format, mime |-> "text/markdown",
          json |-> <<>>, csv |-> <<>>, md |-> <<Markdown(list)>>]

(***************************************************************************)
(* The Checker component.  A state setter ends in a render, which builds   *)
(* `audits` and `sortedAudits` anew from the state; a download does not.   *)
(* The controls exist only while the render shows them.                    *)
(***************************************************************************)
Severities == {"all", "error", "warning", "info"}
SortKeys == {"score", "url", "issues"}
ExportFormats == {"json", "csv", "markdown"}

ViewInit ==
    /\ data = <<>>
    /\ expanded = <<>>
    /\ filter = "all"
    /\ sortKey = "score"
    /\ sortDir = "asc"
    /\ exportFormat = "json"
    /\ audits = <<>>
    /\ sortedAudits = <<>>
    /\ blob = <<>>

Rerender ==
    LET r == Render(data', filter', sortKey', sortDir')
    IN  /\ audits' = r.audits
        /\ sortedAudits' = r.sortedAudits
        /\ blob' = <<>>

\* <SearchBar setDataValues={setData} />
SetData(d) ==
    /\ data' = d
    /\ UNCHANGED <<expanded, filter, sortKey, sortDir, exportFormat>>
    /\ Rerender
    /\ UNCHANGED evalVars

\* onClick={() => setFilter(key)}
SetFilter(key) ==
    /\ Len(audits) > 0
    /\ filter' = key
    /\ UNCHANGED <<data, expanded, sortKey, sortDir, exportFormat>>
    /\ Rerender
    /\ UNCHANGED evalVars

toggleSortDescFirst(key) ==
    /\ Len(audits) > 0
    /\ Len(sortedAudits) > 0
    /\ IF sortKey = key
       THEN /\ sortDir' = (IF sortDir = "asc" THEN "desc" ELSE "asc")
            /\ UNCHANGED sortKey
       ELSE /\ sortKey' = key
            /\ sortDir' = (IF key = "url" THEN "asc" ELSE "desc")
    /\ UNCHANGED <<data, expanded, filter, exportFormat>>
    /\ Rerender
    /\ UNCHANGED evalVars

\* the column header buttons: onClick={() => toggleSort(key)}
toggleSort(key) ==
    /\ Len(audits) > 0
    /\ Len(sortedAudits) > 0
    /\ IF sortKey = key
       THEN /\ sortDir' = (IF sortDir = "asc" THEN "desc" ELSE "asc")
            /\ UNCHANGED sortKey
       ELSE /\ sortKey' = key
            /\ sortDir' = (IF key = "url" THEN "asc" ELSE "asc")
    /\ UNCHANGED <<data, expanded, filter, exportFormat>>
    /\ Rerender
    /\ UNCHANGED evalVars

\* const isExpanded = expanded === audit.url
IsExpanded(audit) == expanded = <<audit.url>>

\* the rows of the list whose open panel reads `No {filter} issues on this
\* page.`
EmptyMessages ==
    {i \in 1..Len(sortedAudits) :
        /\ IsExpanded(sortedAudits[i])
        /\ Len(FilteredIssues(sortedAudits[i], filter)) = 0}

\* onClick={() => setExpanded(isExpanded ? null : audit.url)}
ToggleExpanded(i) ==
    /\ Len(audits) > 0
    /\ i \in 1..Len(sortedAudits)
    /\ expanded' = (IF expanded = <<sortedAudits[i].url>>
                    THEN <<>> ELSE <<sortedAudits[i].url>>)
    /\ UNCHANGED <<data, filter, sortKey, sortDir, exportFormat>>
    /\ Rerender
    /\ UNCHANGED evalVars

\* onValueChange={(v) => setExportFormat(v as ExportFormat)}
SetExportFormat(v) ==
    /\ Len(audits) > 0
    /\ exportFormat' = v
    /\ UNCHANGED <<data, expanded, filter, sortKey, sortDir>>
    /\ Rerender
    /\ UNCHANGED evalVars

\* onClick={() => exportAudits(audits, exportFormat)}
DownloadAll ==
    /\ Len(audits) > 0
    /\ blob' = <<exportAudits(audits, exportFormat)>>
    /\ UNCHANGED <<data, expanded, filter, sortKey, sortDir, exportFormat,
                   audits, sortedAudits>>
    /\ UNCHANGED evalVars

\* onClick={() => exportAudits(sortedAudits, exportFormat)}
DownloadFiltered ==
    /\ Len(audits) > 0
    /\ filter # "all"
    /\ Len(sortedAudits) > 0
    /\ blob' = <<exportAudits(sortedAudits, exportFormat)>>
    /\ UNCHANGED <<data, expanded, filter, sortKey, sortDir, exportFormat,
                   audits, sortedAudits>>
    /\ UNCHANGED evalVars

Init ==
    /\ page = <<>>
    /\ result = <<>>
    /\ ViewInit

Next ==
    \/ \E d \in DataSets : SetData(d)
    \/ \E key \in Severities : SetFilter(key)
    \/ \E key \in SortKeys : toggleSort(key)
    \/ \E i \in 1..MaxPages : ToggleExpanded(i)
    \/ \E v \in ExportFormats : SetExportFormat(v)
    \/ DownloadAll
    \/ DownloadFiltered

Spec == Init /\ [][Next]_vars

(***************************************************************************)
(* The first render after a crawl has handed over its array.               *)
(***************************************************************************)
NextLoad == data = <<>> /\ \E d \in CrawlArrays : SetData(d)

SpecLoad == Init /\ [][NextLoad]_vars

(***************************************************************************)
(* checkA11y applied to one page.                                          *)
(***************************************************************************)
Evaluate ==
    /\ result = <<>>
    /\ result' = <<checkA11y(EvalUrl, page)>>
    /\ UNCHANGED page
    /\ UNCHANGED viewVars

InitEval ==
    /\ page \in Pages
    /\ result = <<>>
    /\ ViewInit

NextEval == Evaluate

SpecEval == InitEval /\ [][NextEval]_vars

(***************************************************************************)
(* Properties of checkA11y, under SpecEval.                                *)
(***************************************************************************)
Done == result # <<>>
Res == result[1]

RuleOrder ==
    << "html-lang", "img-alt", "single-h1", "heading-order", "empty-links",
       "form-labels", "landmark-main", "landmark-nav" >>

Rank(rule) == CHOOSE k \in 1..Len(RuleOrder) : RuleOrder[k] = rule

\* the penalty table of the specification, by rule, for a page
TablePenalty(rule, html) ==
    CASE rule = "html-lang" -> 10
      [] rule = "img-alt" -> Min(20, 5 * NoAltImgs(html))
      [] rule = "single-h1" -> 5
      [] rule = "heading-order" -> 5
      [] rule = "empty-links" -> Min(10, 3 * EmptyLinks(html))
      [] rule = "form-labels" -> Min(15, 5 * (Inputs(html) - Labels(html)))
      [] rule = "landmark-main" -> 3
      [] rule = "landmark-nav" -> 2

IssuesOf(rule) == LET Is(i) == i.rule = rule IN SelectSeq(Res.issues, Is)
IssuesNotOf(rule) == LET IsNot(i) == i.rule # rule IN SelectSeq(Res.issues, IsNot)

TableSum(issues) ==
    SumSeq([i \in 1..Len(issues) |-> TablePenalty(issues[i].rule, page)])

\* what the issues of one rule took off the score
Deducted(rule) == 100 - TableSum(IssuesNotOf(rule)) - Res.score

H1Tags == Cardinality({i \in 1..Len(page) : page[i].tag = "h1"})

\* the positions, in the page's heading levels, that rise by more than one
Skips ==
    LET levels == HeadingLevels(page)
    IN  {i \in 2..Len(levels) : levels[i] - levels[i - 1] > 1}

FirstSkip == CHOOSE i \in Skips : \A j \in Skips : i <= j

\* C1: whatever the html, empty or garbled, the score checkA11y returns is
\* an integer from 0 to 100.
ScoreInRange == Done => Res.score \in 0..100

ScoreInRangeWitness == Done /\ page = <<>> /\ Res.score = 80

\* C2: the score is max(0, 100 - P), P the sum over the issues emitted of
\* the rule's penalty in the table; the page with no lang, one image
\* without alt, no H1, no main and no nav scores 75.
ScoreIsHundredMinusPenalties ==
    Done =>
      /\ Res.score = Max(0, 100 - TableSum(Res.issues))
      /\ page = AssemblePage(FALSE, "none", "none", <<>>, 1, 0, 0, 0)
           => Res.score = 75

ScoreIsHundredMinusPenaltiesWitness ==
    /\ Done
    /\ NoAltImgs(page) = 5
    /\ EmptyLinks(page) = 4
    /\ Inputs(page) - Labels(page) = 4
    /\ Len(Res.issues) = 8
    /\ Res.score = 30

\* C3: the issues carry rules of the eight fixed rules only, at most one
\* issue per rule, in the fixed order of the rules.
IssuesFollowRuleOrder ==
    Done =>
      /\ \A i \in 1..Len(Res.issues) :
           \E k \in 1..Len(RuleOrder) : RuleOrder[k] = Res.issues[i].rule
      /\ \A i, j \in 1..Len(Res.issues) :
           i < j => Rank(Res.issues[i].rule) < Rank(Res.issues[j].rule)

IssuesFollowRuleOrderWitness ==
    /\ Done
    /\ NoAltImgs(page) = 1
    /\ [i \in 1..Len(Res.issues) |-> Res.issues[i].rule] = RuleOrder

\* C4: exactly one H1 tag gives no single-h1 issue; none or several give
\* exactly one single-h1 warning that costs 5 points, with the message
\* 'No H1 tag found' for none and the message naming the count otherwise.
SingleH1Rule ==
    Done =>
      IF H1Tags = 1
      THEN IssuesOf("single-h1") = <<>> /\ Deducted("single-h1") = 0
      ELSE /\ Len(IssuesOf("single-h1")) = 1
           /\ IssuesOf("single-h1")[1].severity = "warning"
           /\ IssuesOf("single-h1")[1].message =
                (IF H1Tags = 0 THEN Msg("No H1 tag found", <<>>)
                 ELSE Msg("H1 tags found", <<H1Tags>>))
           /\ Deducted("single-h1") = 5

SingleH1RuleWitness ==
    /\ Done
    /\ H1Tags = 3
    /\ IssuesOf("single-h1") # <<>>
    /\ IssuesOf("single-h1")[1].message = Msg("H1 tags found", <<3>>)

\* C5: a heading-order issue is emitted if and only if some adjacent pair
\* of heading levels rises by more than one; it is emitted once and costs
\* 5 points once, and its message names the first such pair.
HeadingOrderRule ==
    Done =>
      IF Skips = {}
      THEN IssuesOf("heading-order") = <<>> /\ Deducted("heading-order") = 0
      ELSE /\ Len(IssuesOf("heading-order")) = 1
           /\ IssuesOf("heading-order")[1].message =
                Msg("Heading level skipped: H to H",
                    << HeadingLevels(page)[FirstSkip - 1],
                       HeadingLevels(page)[FirstSkip] >>)
           /\ Deducted("heading-order") = 5

HeadingOrderRuleWitness ==
    /\ Done
    /\ HeadingLevels(page) = <<1, 3, 6>>
    /\ IssuesOf("heading-order") = <<HeadingIssue(1, 3)>>

(***************************************************************************)
(* Properties of the view, under Spec.                                     *)
(***************************************************************************)
\* the pages of a list having at least one issue of a severity
PagesHaving(a, severity) ==
    {i \in 1..Len(a) :
        \E j \in 1..Len(a[i].issues) : a[i].issues[j].severity = severity}

Position(p) == CHOOSE i \in 1..Len(audits) : audits[i] = p

AscendingByScore == SortedAudits(audits, filter, "score", "asc")

\* the key of a page does not come after the key of the next, in a direction
InOrder(p, q, key, dir) ==
    LET le == CASE key = "score" -> p.score <= q.score
                [] key = "issues" -> Len(p.issues) <= Len(q.issues)
                [] key = "url" -> LocaleCompare(p.url, q.url) <= 0
        ge == CASE key = "score" -> p.score >= q.score
                [] key = "issues" -> Len(p.issues) >= Len(q.issues)
                [] key = "url" -> LocaleCompare(p.url, q.url) >= 0
    IN  IF dir = "asc" THEN le ELSE ge

SameKey(p, q, key) == InOrder(p, q, key, "asc") /\ InOrder(p, q, key, "desc")

\* C6: filterCounts gives, for each severity, the number of pages the
\* filter returns: all pages for 'all', else the pages with an issue of
\* that severity; the counts depend on the data alone, and the count of
\* the filter in force is the length of the list shown.
FilterCountsMatchFilters ==
    /\ FilterCounts(audits).all = Len(Audits(data))
    /\ \A s \in Severities \ {"all"} :
         FilterCounts(audits)[s] = Cardinality(PagesHaving(Audits(data), s))
    /\ Len(sortedAudits) = FilterCounts(audits)[filter]

FilterCountsMatchFiltersWitness ==
    /\ filter = "warning"
    /\ sortKey = "url"
    /\ sortDir = "desc"
    /\ Len(audits) = 2
    /\ Len(sortedAudits) = 1
    /\ FilterCounts(audits).error = 0
    /\ FilterCounts(audits).info = 1

\* C7 as stated: the list sorted by score descending is exactly the reverse
\* of the list sorted by score ascending.
DescendingIsReverseOfAscending ==
    (sortKey = "score" /\ sortDir = "desc")
      => sortedAudits = Reverse(AscendingByScore)

\* C7 as amended: the list sorted by score descending has the scores of the
\* ascending list in reverse; it is the exact reverse when no two listed
\* pages have equal scores, and pages of equal score stand in the order of
\* the collection in both lists.
DescendingReversesScores ==
    (sortKey = "score" /\ sortDir = "desc") =>
      /\ Scores(sortedAudits) = Reverse(Scores(AscendingByScore))
      /\ (\A i, j \in 1..Len(sortedAudits) :
             i # j => sortedAudits[i].score # sortedAudits[j].score)
           => sortedAudits = Reverse(AscendingByScore)
      /\ \A i, j \in 1..Len(sortedAudits) :
           (i < j /\ sortedAudits[i].score = sortedAudits[j].score)
             => /\ Position(sortedAudits[i]) < Position(sortedAudits[j])
                /\ \E k, l \in 1..Len(AscendingByScore) :
                     /\ k < l
                     /\ AscendingByScore[k] = sortedAudits[i]
                     /\ AscendingByScore[l] = sortedAudits[j]

DescendingReversesScoresWitness ==
    /\ sortKey = "score"
    /\ sortDir = "desc"
    /\ Len(sortedAudits) = 2
    /\ sortedAudits[1].score > sortedAudits[2].score
    /\ sortedAudits # audits

\* C8: the sorted list is a permutation of the filtered list, ordered by
\* the sort key in the sort direction, and pages with equal keys keep the
\* order they have in the audit collection.
SortedViewIsStableSort ==
    /\ Len(sortedAudits) = Len(FilteredAudits(audits, filter))
    /\ \A p \in {audits[i] : i \in 1..Len(audits)} :
         Cardinality({i \in 1..Len(sortedAudits) : sortedAudits[i] = p})
           = Cardinality({i \in 1..Len(FilteredAudits(audits, filter)) :
                            FilteredAudits(audits, filter)[i] = p})
    /\ \A i, j \in 1..Len(sortedAudits) :
         i < j =>
           /\ InOrder(sortedAudits[i], sortedAudits[j], sortKey, sortDir)
           /\ SameKey(sortedAudits[i], sortedAudits[j], sortKey)
                => Position(sortedAudits[i]) < Position(sortedAudits[j])

SortedViewIsStableSortWitness ==
    /\ sortKey = "issues"
    /\ sortDir = "desc"
    /\ filter = "all"
    /\ Len(sortedAudits) = 2
    /\ sortedAudits[1] # sortedAudits[2]
    /\ Len(sortedAudits[1].issues) = Len(sortedAudits[2].issues)
    /\ sortedAudits = audits

\* the summary figures of the dashboard
Summary(a) ==
    << AvgScore(a), IssueCount(a, "error"), IssueCount(a, "warning"),
       IssueCount(a, "info"), ScoreBuckets(a), FilterCounts(a) >>

\* C9: a step that leaves the data alone (setFilter, toggleSort, expand or
\* collapse, choosing a format, a download) leaves the audit collection
\* alone: its pages, their order, scores and issues, hence the summary
\* figures and what Download All would write.
ViewStepsKeepAudits ==
    [][data' = data =>
         /\ audits' = audits
         /\ Summary(audits') = Summary(audits)
         /\ \A f \in ExportFormats :
              exportAudits(audits', f) = exportAudits(audits, f)]_vars

ViewStepsKeepAuditsWitness ==
    /\ filter = "all"
    /\ sortKey = "score"
    /\ sortDir = "desc"
    /\ expanded # <<>>
    /\ Len(audits) = 2
    /\ sortedAudits # audits
    /\ blob = <<exportAudits(audits, "csv")>>

\* the mean of a list of scores rounded to the nearest integer, a tie
\* going up
IsRoundedMean(avg, scores) ==
    /\ 2 * Len(scores) * avg <= 2 * SumSeq(scores) + Len(scores)
    /\ 2 * SumSeq(scores) + Len(scores) < 2 * Len(scores) * (avg + 1)

Between(avg, scores) ==
    /\ \E i \in 1..Len(scores) : scores[i] <= avg
    /\ \E i \in 1..Len(scores) : avg <= scores[i]

\* C10: the average score is 0 for an empty collection and otherwise the
\* mean of the page scores rounded to the nearest integer, between the
\* least and the greatest score; scores 100 and 50 average to 75; the
\* average of a markdown report is that of the pages it lists.
AverageIsRoundedMean ==
    /\ IF audits = <<>> THEN AvgScore(audits) = 0
       ELSE /\ IsRoundedMean(AvgScore(audits), Scores(audits))
            /\ Between(AvgScore(audits), Scores(audits))
    /\ AvgScore(<<>>) = 0
    /\ AvgScore(<<[score |-> 100], [score |-> 50]>>) = 75
    /\ (blob # <<>> /\ blob[1].format = "markdown") =>
         LET md == blob[1].md[1]
             listed == [i \in 1..md.pages |-> md.sections[i].score]
         IN  IsRoundedMean(md.avg, listed) /\ Between(md.avg, listed)

AverageIsRoundedMeanWitness ==
    /\ Scores(audits) = <<100, 93>>
    /\ AvgScore(audits) = 97
    /\ blob # <<>>
    /\ blob[1].format = "markdown"
    /\ blob[1].md[1].avg = 97

(***************************************************************************)
(* Properties of the CSV export, under Spec.                               *)
(***************************************************************************)
\* the data rows a page takes: one per issue, one if it has none
RowsOfPage(a) == Max(1, Len(a.issues))

\* the rows before the data rows of the k-th page: the header and the rows
\* of the pages before it
RowsBefore(list, k) == 1 + SumSeq([j \in 1..(k - 1) |-> RowsOfPage(list[j])])

RECURSIVE DigitsValue(_)
DigitsValue(digits) ==
    IF digits = <<>> THEN 0
    ELSE 10 * DigitsValue(SubSeq(digits, 1, Len(digits) - 1))
           + (CHOOSE d \in 0..9 : Digit(d) = digits[Len(digits)])

IsCsvOf(rows, list) ==
    /\ Len(rows) = 1 + SumSeq([k \in 1..Len(list) |-> RowsOfPage(list[k])])
    /\ rows[1].rule = "Rule" /\ rows[1].message = Msg("Message", <<>>)
    /\ \A k \in 1..Len(list) :
         LET first == RowsBefore(list, k) + 1
             a == list[k]
         IN  /\ \A r \in first..(first + RowsOfPage(a) - 1) :
                  rows[r].url = a.url /\ DigitsValue(rows[r].score) = a.score
             /\ IF Len(a.issues) = 0
                THEN /\ rows[first].rule = ""
                     /\ rows[first].severity = ""
                     /\ rows[first].suggestion = ""
                     /\ rows[first].message = Msg("No issues", <<>>)
                ELSE \A i \in 1..Len(a.issues) :
                       /\ rows[first + i - 1].rule = a.issues[i].rule
                       /\ rows[first + i - 1].severity = a.issues[i].severity
                       /\ rows[first + i - 1].message = a.issues[i].message
                       /\ rows[first + i - 1].suggestion = a.issues[i].suggestion

\* C11: a CSV download is the header row followed, page by page in list
\* order, by one row per issue, or for a page without issues by one row
\* with empty rule, severity and suggestion and the message 'No issues';
\* so the data rows number the sum over the pages of max(1, issues).
CsvHasARowPerIssueOrPage ==
    (blob # <<>> /\ blob[1].format = "csv") =>
      \/ IsCsvOf(blob[1].csv, audits)
      \/ filter # "all" /\ IsCsvOf(blob[1].csv, sortedAudits)

CsvHasARowPerIssueOrPageWitness ==
    /\ blob # <<>>
    /\ blob[1].format = "csv"
    /\ Len(audits) = 2
    /\ Len(audits[1].issues) = 0
    /\ Len(audits[2].issues) = 2
    /\ Len(blob[1].csv) = 4
    /\ blob[1].csv[2].message = Msg("No issues", <<>>)
    /\ blob[1].csv[4].url = audits[2].url

(***************************************************************************)
(* Properties of the records kept, under SpecLoad.                         *)
(***************************************************************************)
\* the records of the data bearing a url and a content
Bearing == {k \in 1..Len(data) : data[k].url # <<>> /\ data[k].content # <<>>}

\* those of them whose url and content are not the empty string
BearingText ==
    {k \in Bearing : data[k].url[1] # <<>> /\ data[k].content[1] # <<>>}

\* the audits are those of the records at the positions kept, in order
AuditsAreOf(kept) ==
    /\ Len(audits) = Cardinality(kept)
    /\ \A k \in kept :
         audits[Cardinality({j \in kept : j <= k})]
           = checkA11y(data[k].url[1], data[k].content[1])

\* C12 as stated: the records bearing both a url and a content yield one
\* audit each, in input order, and the others none.
EveryBearingRecordIsAudited == AuditsAreOf(Bearing)

\* C12 as amended: the records bearing both a url and a content, neither
\* the empty string, yield one audit each, in input order; a record that
\* lacks either field or bears an empty string in it yields none.
EveryRecordWithTextIsAudited == AuditsAreOf(BearingText)

EveryRecordWithTextIsAuditedWitness ==
    /\ Len(data) = 2
    /\ data[1].url = <<<<"B">>>> /\ data[1].content = <<>>
    /\ data[2].url = <<<<"a">>>> /\ data[2].content = <<ErrorPage>>
    /\ Len(audits) = 1
    /\ audits[1].url = <<"a">>
    /\ audits[1].score = 93

(***************************************************************************)
(* The range of the penalties, under SpecEval.                             *)
(***************************************************************************)
\* C13: checkA11y takes at most 70 points off, so the score is at least
\* 30 and Math.max(0, score) returns the score it is given; the score is
\* 100 exactly when no issue is emitted.
PenaltiesAtMostSeventy ==
    Done =>
      /\ 100 - Checked(page).score <= 70
      /\ Res.score >= 30
      /\ Res.score = Checked(page).score
      /\ Res.score = 100 <=> Res.issues = <<>>

PenaltiesAtMostSeventyWitness ==
    /\ Done
    /\ Checked(page).score = 30
    /\ Res.score = 30
    /\ HeadingLevels(page) = <<2, 4>>

(***************************************************************************)
(* The sort key and direction, under Spec.                                 *)
(***************************************************************************)
Flipped(dir) == IF dir = "asc" THEN "desc" ELSE "asc"

IsToggle == \E k \in SortKeys : toggleSort(k)

\* C14: the view starts sorted by score, ascending.  toggleSort(k) keeps
\* the key and flips the direction when k is the active key, and makes k
\* the key with direction asc when k is another key, whatever the
\* direction was; it changes neither the filter nor the audits.  No other
\* step changes key or direction, so the direction is desc only when the
\* last toggleSort named the key already active with direction asc.
ToggleSortFlipsOrResets ==
    /\ sortKey = "score" /\ sortDir = "asc"
    /\ [][/\ \A k \in SortKeys :
               toggleSort(k) =>
                 /\ k = sortKey => sortKey' = sortKey /\ sortDir' = Flipped(sortDir)
                 /\ k # sortKey => sortKey' = k /\ sortDir' = "asc"
                 /\ filter' = filter
                 /\ audits' = audits
          /\ ~IsToggle => sortKey' = sortKey /\ sortDir' = sortDir
          /\ sortDir' = "desc" =>
               \/ toggleSort(sortKey) /\ sortDir = "asc"
               \/ ~IsToggle /\ sortDir = "desc"]_vars

ToggleSortFlipsOrResetsWitness ==
    /\ sortKey = "url"
    /\ sortDir = "desc"
    /\ filter = "warning"
    /\ Len(sortedAudits) > 0

(***************************************************************************)
(* The page filter and the issue filter of a panel, under Spec.            *)
(***************************************************************************)
\* C15: under a filter of error, warning or info every page of the
\* displayed list has at least one issue of that severity to list in its
\* panel; so a panel reads 'No <filter> issues on this page.' only when
\* the filter is 'all' and the page has no issue at all.
ListedPagesHaveListedIssues ==
    /\ filter # "all" =>
         \A i \in 1..Len(sortedAudits) :
            /\ FilteredIssues(sortedAudits[i], filter) # <<>>
            /\ \E j \in 1..Len(sortedAudits[i].issues) :
                 sortedAudits[i].issues[j].severity = filter
    /\ \A i \in EmptyMessages :
         filter = "all" /\ sortedAudits[i].issues = <<>>

\* the open panel belongs to a listed page with errors, while a page of the
\* same url without issues is kept off the list
ListedPagesHaveListedIssuesWitness ==
    /\ filter = "error"
    /\ Len(audits) = 2
    /\ Len(sortedAudits) = 1
    /\ IsExpanded(sortedAudits[1])
    /\ \E k \in 1..Len(audits) :
         audits[k].url = sortedAudits[1].url /\ audits[k].issues = <<>>
    /\ EmptyMessages = {}

====
